---- MODULE Spec2Model ----
(***************************************************************************)
(* A model of csv_to_excel_converter.py: the CSVToExcelConverter pipeline  *)
(* (load_data, create_workbook, the four sheet generators,                 *)
(* finalize_workbook, save) run by convert() under one try/except.         *)
(*                                                                         *)
(* Text is a tuple of one-character strings.  A table cell is a natural:   *)
(* 0 is the missing value (NaN), n > 0 is the n-th distinct cell content   *)
(* of the file (a number in a numeric column, a string in a text column).  *)
(***************************************************************************)
EXTENDS Integers, Sequences, FiniteSets, TLC

\* ------------------------------------------------------------------ bounds
MaxNumCols == 11      \* numeric columns of a generated table
MaxNullCols == 2      \* all-null columns among them
MaxTextCols == 6      \* columns of a generated text-heavy table
SmallRows == 5        \* rows of an exhaustively enumerated column
MaxVal == 2           \* distinct contents of an exhaustively enumerated column
MaxDistinct == 22     \* distinct contents of a generated wide-range column
MaxPathLen == 5       \* characters of an enumerated input path

\* ------------------------------------------------- literals of the program
NumericLimit == 10       \* numeric_cols[:10]
CategoricalLimit == 5    \* categorical_cols[:5]
MaxCategories == 20      \* len(unique()) <= 20
NamePrefixLen == 25      \* col[:25]
PieLimit == 10           \* len(value_counts) <= 10

\* -------------------------------------------------------------------- text
Rep(c, n) == [i \in 1..n |-> c]

Take(s, n) == SubSeq(s, 1, IF Len(s) < n THEN Len(s) ELSE n)

Drop(s, n) == SubSeq(s, n + 1, Len(s))

StartsWith(s, p) == Len(p) <= Len(s) /\ SubSeq(s, 1, Len(p)) = p

EndsWith(s, p) == Len(p) <= Len(s) /\ SubSeq(s, Len(s) - Len(p) + 1, Len(s)) = p

IsSpace(c) == c \in {" ", "\t", "\n"}

RECURSIVE LStrip(_)
LStrip(s) == IF s # <<>> /\ IsSpace(Head(s)) THEN LStrip(Tail(s)) ELSE s

RECURSIVE RStrip(_)
RStrip(s) ==
    IF s # <<>> /\ IsSpace(s[Len(s)]) THEN RStrip(SubSeq(s, 1, Len(s) - 1)) ELSE s

\* str.strip()
Strip(s) == RStrip(LStrip(s))

\* str.replace(old, new), old non-empty: every non-overlapping occurrence,
\* scanning from the left.
RECURSIVE Replace(_, _, _)
Replace(s, old, new) ==
    IF s = <<>> THEN <<>>
    ELSE IF StartsWith(s, old) THEN new \o Replace(Drop(s, Len(old)), old, new)
    ELSE <<Head(s)>> \o Replace(Tail(s), old, new)

DigitChar(d) == <<"0", "1", "2", "3", "4", "5", "6", "7", "8", "9">>[d + 1]

\* str(n) of a natural
RECURSIVE Digits(_)
Digits(n) == IF n < 10 THEN <<DigitChar(n)>> ELSE Digits(n \div 10) \o <<DigitChar(n % 10)>>

CSV_EXT == <<".", "c", "s", "v">>
XLSX_EXT == <<".", "x", "l", "s", "x">>
COMPREHENSIVE_XLSX ==
    <<"_", "c", "o", "m", "p", "r", "e", "h", "e", "n", "s", "i", "v", "e">> \o XLSX_EXT
ANALYSIS_SUFFIX == <<"_", "A", "n", "a", "l", "y", "s", "i", "s">>
COMPLETE_DATA == <<"C", "o", "m", "p", "l", "e", "t", "e", " ", "D", "a", "t", "a">>
DATA_SUMMARY == <<"D", "a", "t", "a", " ", "S", "u", "m", "m", "a", "r", "y">>
DATA_VISUALIZATIONS ==
    <<"D", "a", "t", "a", " ", "V", "i", "s", "u", "a", "l", "i", "z", "a", "t", "i", "o", "n", "s">>
DEFAULT_SHEET == <<"S", "h", "e", "e", "t">>
NAN_PCT == <<"n", "a", "n", "%">>

\* ------------------------------------------------------------------ pandas
\* pd.isnull / pd.notnull of one cell
isnull(v) == v = 0

notnull(v) == v # 0

\* Series.count(): the non-null cells
count(vals) == Cardinality({i \in DOMAIN vals : notnull(vals[i])})

\* Series.isnull().sum()
isnull_sum(vals) == Cardinality({i \in DOMAIN vals : isnull(vals[i])})

\* Series.unique(): the distinct cells in order of first appearance, NaN included
RECURSIVE unique(_)
unique(vals) ==
    IF vals = <<>> THEN <<>>
    ELSE LET rest == unique(SubSeq(vals, 1, Len(vals) - 1))
             last == vals[Len(vals)]
         IN IF \E i \in DOMAIN rest : rest[i] = last THEN rest ELSE Append(rest, last)

Occurrences(vals, v) == Cardinality({i \in DOMAIN vals : vals[i] = v})

RemoveAt(s, i) == SubSeq(s, 1, i - 1) \o SubSeq(s, i + 1, Len(s))

\* value_counts(sort=False): the pairs as met
SortDescending_Unsorted(pairs) == pairs

\* A stable sort of <<value, count>> pairs by descending count.
RECURSIVE SortDescending(_)
SortDescending(pairs) ==
    IF pairs = <<>> THEN <<>>
    ELSE LET best == CHOOSE i \in DOMAIN pairs :
                        /\ \A j \in DOMAIN pairs : pairs[j][2] <= pairs[i][2]
                        /\ \A j \in 1..(i - 1) : pairs[j][2] < pairs[i][2]
         IN <<pairs[best]>> \o SortDescending(RemoveAt(pairs, best))

\* Series.value_counts(): one <<value, count>> per distinct non-null cell, by
\* descending count (dropna=True, sort=True); equal counts keep the order of
\* first appearance.
value_counts(vals) ==
    LET keys == unique(SelectSeq(vals, notnull))
    IN SortDescending([i \in DOMAIN keys |-> <<keys[i], Occurrences(vals, keys[i])>>])

RECURSIVE SumSeq(_)
SumSeq(s) == IF s = <<>> THEN 0 ELSE Head(s) + SumSeq(Tail(s))

\* Series.mean() (skipna=True) as the fraction <<sum, n>> of the non-null
\* cells; n = 0 is NaN.
mean(vals) == <<SumSeq(vals), count(vals)>>

mean_notnull(m) == m[2] # 0

\* The dtype read_csv infers for a column: an empty table has object columns,
\* an all-empty column is float64, integers with a gap become float64.
InferDtype(kind, vals) ==
    IF vals = <<>> THEN "object"
    ELSE IF count(vals) = 0 THEN "float64"
    ELSE IF kind = "text" THEN "object"
    ELSE IF isnull_sum(vals) > 0 THEN "float64"
    ELSE "int64"

\* DataFrame.select_dtypes(include=[np.number]).columns
select_number(cols) == SelectSeq(cols, LAMBDA c : c.dtype \in {"int64", "float64"})

\* DataFrame.select_dtypes(include=['object']).columns
select_object(cols) == SelectSeq(cols, LAMBDA c : c.dtype = "object")

\* f"{(part / total) * 100:.2f}%": the quotient in hundredths of a percent,
\* rounded to nearest (ties to even); a numpy 0 / 0 is nan.
Hundredths(part, total) ==
    LET q == (10000 * part) \div total
        r == (10000 * part) % total
    IN IF 2 * r > total THEN q + 1
       ELSE IF 2 * r = total THEN q + (q % 2)
       ELSE q

Fixed2(h) ==
    Digits(h \div 100) \o <<".">> \o <<DigitChar((h % 100) \div 10), DigitChar(h % 10)>>

FormatPct(part, total) ==
    IF total = 0 THEN NAN_PCT ELSE Fixed2(Hundredths(part, total)) \o <<"%">>

\* ---------------------------------------------------------------- openpyxl
\* A worksheet: the title given to create_sheet, cell A1, the rows written
\* below the headings, the chart added (if any) and whether a table is
\* registered.
Sheet(title, a1, rows, chart, table) ==
    [title |-> title, a1 |-> a1, rows |-> rows, chart |-> chart, table |-> table]

NoChart == [kind |-> "none", data |-> <<>>, cats |-> <<>>]

\* Reference(ws, min_col=2, min_row=3, max_row=3 + n) as the series and
\* Reference(ws, min_col=1, min_row=4, max_row=3 + n) as the categories
Chart(kind, n) ==
    [kind |-> kind,
     data |-> <<[min_col |-> 2, min_row |-> 3, max_row |-> 3 + n]>>,
     cats |-> <<[min_col |-> 1, min_row |-> 4, max_row |-> 3 + n]>>]

NoWorkbook == [created |-> FALSE, sheets |-> <<>>, active |-> 0, title |-> <<>>]

\* Workbook(): one default sheet, which is the active one.
NewWorkbook == [created |-> TRUE, sheets |-> <<DEFAULT_SHEET>>, active |-> 1, title |-> <<>>]

NoData == [loaded |-> FALSE, nrows |-> 0, cols |-> <<>>]

\* ------------------------------------------------------- CSVToExcelConverter
VARIABLES
    output_file_arg,    \* the output_file_path argument of __init__ (<<>>: None)
    csv_file_path,      \* self.csv_file_path
    output_file_path,   \* self.output_file_path
    file,               \* the CSV file: what each read_csv attempt does, and its table
    data,               \* self.data
    workbook,           \* self.workbook
    pc,                 \* the stage convert() runs next
    trace,              \* the stages that completed, in order
    attempts,           \* the encodings load_data passed to read_csv, in order
    result,             \* what convert() returned
    saved               \* the save calls that completed: <<path, sheets, active>>

vars == <<output_file_arg, csv_file_path, output_file_path, file, data, workbook, pc, trace,
          attempts, result, saved>>

\* __init__: output_file_path or csv_file_path.replace('.csv', '_comprehensive.xlsx');
\* an absent (None) or empty argument is <<>>.
DefaultOutputPath(csv) == Replace(csv, CSV_EXT, COMPREHENSIVE_XLSX)

OutputPath(csv, arg) == IF arg # <<>> THEN arg ELSE DefaultOutputPath(csv)

ENCODINGS == <<"utf-8", "utf-8-sig", "latin-1">>

\* load_data with "except Exception": any failed attempt moves on
LoadAttempts_AnyError(enc) ==
    IF enc[1] = "ok" THEN <<1>>
    ELSE IF enc[2] = "ok" THEN <<1, 2>>
    ELSE <<1, 2, 3>>

\* The nested try/except of load_data: the encodings passed to read_csv, and
\* how the last attempt ended.  Only UnicodeDecodeError is caught.
LoadAttempts(enc) ==
    IF enc[1] # "UnicodeDecodeError" THEN <<1>>
    ELSE IF enc[2] # "UnicodeDecodeError" THEN <<1, 2>>
    ELSE <<1, 2, 3>>

LoadOutcome(enc) == enc[LoadAttempts(enc)[Len(LoadAttempts(enc))]]

\* self.data after read_csv and self.data.columns.str.strip()
LoadedData(f) ==
    [loaded |-> TRUE,
     nrows |-> f.nrows,
     cols |-> [i \in DOMAIN f.cols |->
                  [name |-> Strip(f.cols[i].name),
                   dtype |-> InferDtype(f.cols[i].kind, f.cols[i].vals),
                   vals |-> f.cols[i].vals]]]

\* create_workbook: Workbook(), then remove(active)
RemoveDefault(wb) ==
    [wb EXCEPT !.sheets = RemoveAt(wb.sheets, wb.active)]

create_sheet(wb, ws) == [wb EXCEPT !.sheets = Append(wb.sheets, ws)]

\* create_main_data_sheet: the header row and the data rows; a table when
\* len(self.data) > 0
MainDataSheet(d) ==
    Sheet(COMPLETE_DATA,
          IF d.cols = <<>> THEN <<>> ELSE d.cols[1].name,
          <<[j \in DOMAIN d.cols |-> d.cols[j].name]>>
              \o [i \in 1..d.nrows |-> [j \in DOMAIN d.cols |-> d.cols[j].vals[i]]],
          NoChart,
          d.nrows > 0)

DATASET_OVERVIEW ==
    <<"D", "a", "t", "a", "s", "e", "t", " ", "O", "v", "e", "r", "v", "i", "e", "w">>

\* create_summary_sheet, rows 9..: name, dtype, non-null count, null count,
\* null percentage
SummaryRow(c, total) ==
    <<c.name, c.dtype, count(c.vals), isnull_sum(c.vals),
      FormatPct(isnull_sum(c.vals), total)>>

SummarySheet(d) ==
    Sheet(DATA_SUMMARY, DATASET_OVERVIEW,
          [i \in DOMAIN d.cols |-> SummaryRow(d.cols[i], d.nrows)],
          NoChart, FALSE)

\* create_charts_sheet
ChartColumns(d) == Take(select_number(d.cols), NumericLimit)

\* create_charts_sheet taking the first 10 columns that have a mean
ChartData_FilterBeforeLimit(d) ==
    LET nums == select_number(d.cols)
        means == [i \in DOMAIN nums |-> <<nums[i].name, mean(nums[i].vals)>>]
    IN Take(SelectSeq(means, LAMBDA r : mean_notnull(r[2])), NumericLimit)

ChartData(d) ==
    LET means == [i \in DOMAIN ChartColumns(d) |->
                     <<ChartColumns(d)[i].name, mean(ChartColumns(d)[i].vals)>>]
    IN SelectSeq(means, LAMBDA r : mean_notnull(r[2]))

ChartsSheet(d) ==
    Sheet(DATA_VISUALIZATIONS, DATA_VISUALIZATIONS,
          ChartData(d),
          IF ChartData(d) # <<>> THEN Chart("bar", Len(ChartData(d))) ELSE NoChart,
          FALSE)

\* create_filtered_sheets
ANALYSIS_HEADING == <<"A", "n", "a", "l", "y", "s", "i", "s", ":", " ">>

\* create_filtered_sheets without the [:5]
CategoricalColumns_NoLimit(d) == select_object(d.cols)

CategoricalColumns(d) == Take(select_object(d.cols), CategoricalLimit)

SheetName(col) == Take(col, NamePrefixLen) \o ANALYSIS_SUFFIX

FewCategories(c) == Len(unique(c.vals)) <= MaxCategories

HasAnalysis(c) == FewCategories(c) /\ Len(value_counts(c.vals)) > 1

HasPie(vc) == Len(vc) <= PieLimit

AnalysisSheet(c, total) ==
    LET vc == value_counts(c.vals)
    IN Sheet(SheetName(c.name), ANALYSIS_HEADING \o c.name,
             [i \in DOMAIN vc |-> <<vc[i][1], vc[i][2], FormatPct(vc[i][2], total)>>],
             IF HasPie(vc) THEN Chart("pie", Len(vc)) ELSE NoChart,
             FALSE)

FilteredSheets(d) ==
    LET chosen == SelectSeq(CategoricalColumns(d), HasAnalysis)
    IN [i \in DOMAIN chosen |-> AnalysisSheet(chosen[i], d.nrows)]

\* finalize_workbook
DATA_ANALYSIS_REPORT ==
    <<"D", "a", "t", "a", " ", "A", "n", "a", "l", "y", "s", "i", "s", " ",
      "R", "e", "p", "o", "r", "t">>

Finalized(wb) ==
    [wb EXCEPT !.active = IF Len(wb.sheets) > 0 THEN 1 ELSE wb.active,
               !.title = DATA_ANALYSIS_REPORT]

\* ------------------------------------------------------------------ convert
STAGES ==
    <<"load_data", "create_workbook", "create_main_data_sheet",
      "create_summary_sheet", "create_charts_sheet", "create_filtered_sheets",
      "finalize_workbook", "save", "report">>

StageIndex(st) == CHOOSE i \in DOMAIN STAGES : STAGES[i] = st

After(st) ==
    IF StageIndex(st) < Len(STAGES) THEN STAGES[StageIndex(st) + 1] ELSE "returned"

\* A stage completes and the try block goes on to the next statement.
Proceed(st) ==
    /\ pc' = After(st)
    /\ trace' = Append(trace, st)

\* self.load_data(); an exception other than the caught UnicodeDecodeError
\* reaches convert()'s except clause.
LoadData ==
    /\ pc = "load_data"
    /\ attempts' = [i \in DOMAIN LoadAttempts(file.enc) |-> ENCODINGS[LoadAttempts(file.enc)[i]]]
    /\ IF LoadOutcome(file.enc) = "ok"
       THEN /\ data' = LoadedData(file)
            /\ Proceed("load_data")
            /\ result' = result
       ELSE /\ data' = data
            /\ pc' = "returned"
            /\ trace' = trace
            /\ result' = "False"
    /\ UNCHANGED <<output_file_arg, csv_file_path, output_file_path, file, workbook, saved>>

CreateWorkbook ==
    /\ pc = "create_workbook"
    /\ workbook' = RemoveDefault(NewWorkbook)
    /\ Proceed("create_workbook")
    /\ UNCHANGED <<output_file_arg, csv_file_path, output_file_path, file, data, attempts, result, saved>>

CreateMainDataSheet ==
    /\ pc = "create_main_data_sheet"
    /\ workbook' = create_sheet(workbook, MainDataSheet(data))
    /\ Proceed("create_main_data_sheet")
    /\ UNCHANGED <<output_file_arg, csv_file_path, output_file_path, file, data, attempts, result, saved>>

CreateSummarySheet ==
    /\ pc = "create_summary_sheet"
    /\ workbook' = create_sheet(workbook, SummarySheet(data))
    /\ Proceed("create_summary_sheet")
    /\ UNCHANGED <<output_file_arg, csv_file_path, output_file_path, file, data, attempts, result, saved>>

CreateChartsSheet ==
    /\ pc = "create_charts_sheet"
    /\ workbook' = create_sheet(workbook, ChartsSheet(data))
    /\ Proceed("create_charts_sheet")
    /\ UNCHANGED <<output_file_arg, csv_file_path, output_file_path, file, data, attempts, result, saved>>

CreateFilteredSheets ==
    /\ pc = "create_filtered_sheets"
    /\ workbook' = [workbook EXCEPT !.sheets = workbook.sheets \o FilteredSheets(data)]
    /\ Proceed("create_filtered_sheets")
    /\ UNCHANGED <<output_file_arg, csv_file_path, output_file_path, file, data, attempts, result, saved>>

FinalizeWorkbook ==
    /\ pc = "finalize_workbook"
    /\ workbook' = Finalized(workbook)
    /\ Proceed("finalize_workbook")
    /\ UNCHANGED <<output_file_arg, csv_file_path, output_file_path, file, data, attempts, result, saved>>

\* self.workbook.save(self.output_file_path)
Save ==
    /\ pc = "save"
    /\ saved' = Append(saved, [path |-> output_file_path, workbook |-> workbook])
    /\ Proceed("save")
    /\ UNCHANGED <<output_file_arg, csv_file_path, output_file_path, file, data, workbook, attempts, result>>

\* the closing prints, then return True
Report ==
    /\ pc = "report"
    /\ result' = "True"
    /\ Proceed("report")
    /\ UNCHANGED <<output_file_arg, csv_file_path, output_file_path, file, data, workbook, attempts, saved>>

\* a stage whose exception is swallowed: convert() goes on with the next one
Raise_Swallowed ==
    /\ pc \in {STAGES[i] : i \in 2..(Len(STAGES) - 1)}
    /\ pc' = After(pc)
    /\ UNCHANGED <<output_file_arg, csv_file_path, output_file_path, file, data, workbook,
                   trace, attempts, result, saved>>

\* except Exception: any statement of the try block after load_data raises
\* (an I/O error while saving or printing, a library error); convert() prints
\* the message and returns False.
Raise ==
    /\ pc \in {STAGES[i] : i \in 2..Len(STAGES)}
    /\ pc' = "returned"
    /\ result' = "False"
    /\ UNCHANGED <<output_file_arg, csv_file_path, output_file_path, file, data, workbook, trace,
                   attempts, saved>>

Next ==
    \/ LoadData
    \/ CreateWorkbook
    \/ CreateMainDataSheet
    \/ CreateSummarySheet
    \/ CreateChartsSheet
    \/ CreateFilteredSheets
    \/ FinalizeWorkbook
    \/ Save
    \/ Report
    \/ Raise

\* ------------------------------------------------------------------- inputs
LETTERS ==
    <<"a", "b", "c", "d", "e", "f", "g", "h", "i", "j", "k", "l", "m", "n", "o", "p">>

\* the header of the i-th column of a generated table
ColName(i) == <<"c", LETTERS[i]>>

Column(name, kind, vals) == [name |-> name, kind |-> kind, vals |-> vals]

Table(nrows, cols) == [nrows |-> nrows, cols |-> cols]

\* One row, 1..MaxNumCols numeric columns, at most MaxNullCols of them empty.
NumTables ==
    {Table(1, [i \in 1..n |-> Column(ColName(i), "num", <<IF i \in S THEN 0 ELSE i>>)]) :
        <<n, S>> \in {x \in (1..MaxNumCols) \X SUBSET (1..MaxNumCols) :
                         x[2] \subseteq 1..x[1] /\ Cardinality(x[2]) <= MaxNullCols}}

\* Two rows, 1..MaxTextCols columns, each a text column of two contents, a
\* text column of one content, or a numeric column.
TextTables ==
    {Table(2, [i \in 1..n |->
                  CASE f[i] = 1 -> Column(ColName(i), "text", <<1, 2>>)
                    [] f[i] = 2 -> Column(ColName(i), "text", <<1, 1>>)
                    [] OTHER -> Column(ColName(i), "num", <<1, 2>>)]) :
        <<n, f>> \in {x \in (1..MaxTextCols) \X [1..MaxTextCols -> 1..3] :
                         \A i \in (x[1] + 1)..MaxTextCols : x[2][i] = 1}}

\* One text column, every content of 0..SmallRows rows over MaxVal strings
\* and the empty cell.
FreqTables ==
    UNION {{Table(r, <<Column(ColName(1), "text", v)>>) : v \in [1..r -> 0..MaxVal]} :
              r \in 0..SmallRows}

\* One text column of d distinct strings, then rep repeats of the first and
\* nulls empty cells.
DistinctTables ==
    {Table(x[1] + x[2] + x[3],
           <<Column(ColName(1), "text",
                    [i \in 1..x[1] |-> i] \o Rep(1, x[2]) \o Rep(0, x[3]))>>) :
        x \in (1..MaxDistinct) \X (0..1) \X (0..1)}

\* Two qualifying text columns whose names are long or short.
LONG_NAMES ==
    {Rep("a", NamePrefixLen) \o <<"x">>, Rep("a", NamePrefixLen) \o <<"y">>,
     Rep("a", NamePrefixLen - 1) \o <<"x">>, <<"a">>}

NameTables ==
    {Table(2, <<Column(x[1], "text", <<1, 2>>), Column(x[2], "text", <<2, 1>>)>>) :
        x \in {y \in LONG_NAMES \X LONG_NAMES : y[1] # y[2]}}

Tables == NumTables \cup TextTables \cup FreqTables \cup DistinctTables \cup NameTables

ALL_OK == <<"ok", "ok", "ok">>

File(enc, t) == [enc |-> enc, nrows |-> t.nrows, cols |-> t.cols]

D_CSV == <<"d">> \o CSV_EXT

InitWith(csv, arg, f) ==
    /\ output_file_arg = arg
    /\ csv_file_path = csv
    /\ output_file_path = OutputPath(csv, arg)
    /\ file = f
    /\ data = NoData
    /\ workbook = NoWorkbook
    /\ pc = "load_data"
    /\ trace = <<>>
    /\ attempts = <<>>
    /\ result = "none"
    /\ saved = <<>>

Init ==
    \E t \in Tables, enc \in {ALL_OK, <<"OtherError", "ok", "ok">>} :
        InitWith(D_CSV, <<>>, File(enc, t))

Spec == Init /\ [][Next]_vars

\* What the three read_csv attempts can do to one file: latin-1 decodes every
\* byte, and bytes that are not UTF-8 are not UTF-8 after a byte-order mark
\* either.
ENC_OUTCOMES ==
    {e \in [1..3 -> {"ok", "UnicodeDecodeError", "OtherError"}] :
        /\ e[3] # "UnicodeDecodeError"
        /\ e[1] = "UnicodeDecodeError" => e[2] # "ok"}

\* Headers with and without surrounding whitespace, distinct once stripped.
RAW_NAMES(core) ==
    {l \o core \o r : l \in {<<>>, <<" ">>, <<"\t", " ">>}, r \in {<<>>, <<" ">>}}

LoadTables ==
    {Table(1, <<Column(a, "text", <<1>>)>>) : a \in RAW_NAMES(<<"a", " ", "b">>)}
    \cup {Table(1, <<Column(x[1], "text", <<1>>), Column(x[2], "num", <<1>>)>>) :
             x \in RAW_NAMES(<<"a">>) \X RAW_NAMES(<<"b">>)}

InitLoad ==
    \E t \in LoadTables, enc \in ENC_OUTCOMES : InitWith(D_CSV, <<>>, File(enc, t))

SpecLoad == InitLoad /\ [][Next]_vars

\* Every input path of 1..MaxPathLen characters over "d" and the characters of ".csv",
\* with and without an output path given.
PATH_CHARS == {"d", ".", "c", "s", "v"}

Paths == UNION {[1..n -> PATH_CHARS] : n \in 1..MaxPathLen}

O_XLSX == <<"o">> \o XLSX_EXT

InitPath ==
    \E csv \in Paths, arg \in {<<>>, O_XLSX} :
        InitWith(csv, arg, File(ALL_OK, Table(1, <<Column(ColName(1), "num", <<1>>)>>)))

SpecPath == InitPath /\ [][Next]_vars

\* =================================================================== claims
Completed(st) == \E i \in DOMAIN trace : trace[i] = st

BEFORE_SAVE == SubSeq(STAGES, 1, 7)

SheetTitles(wb) == [i \in DOMAIN wb.sheets |-> wb.sheets[i].title]

\* the distinct non-null contents of a column
DistinctValues(vals) == {vals[i] : i \in DOMAIN vals} \ {0}

\* the worksheets whose cell A1 is "Analysis: <name>"
AnalysisOf(wb, name) ==
    {i \in DOMAIN wb.sheets : wb.sheets[i].a1 = ANALYSIS_HEADING \o name}

\* C1: the workbook is saved only after load_data, create_workbook, the four
\* sheet generators and finalize_workbook all completed, in that order, and at
\* most once; a run that raised has returned False with nothing left to run,
\* and nothing saved if it raised before the save step; convert() returns
\* True only after the save.
C1_SaveOnlyAfterAllStages ==
    /\ saved # <<>> => Len(saved) = 1 /\ SubSeq(trace, 1, 7) = BEFORE_SAVE
    /\ Len(trace) <= 7 => saved = <<>>
    /\ result = "False" => pc = "returned" /\ ~ENABLED Next
    /\ result = "False" /\ ~Completed("save") => saved = <<>>
    /\ pc = "returned" /\ trace # STAGES => result = "False"
    /\ result = "True" => saved # <<>> /\ Completed("save")

\* C1 witness: create_filtered_sheets raised: five stages completed, convert()
\* returned False, nothing was saved.
C1_Witness ==
    /\ result = "False"
    /\ trace = SubSeq(STAGES, 1, 5)
    /\ saved = <<>>

\* C2: every sheet title of the workbook is unique, also when two qualifying
\* text columns share their first 25 characters.
C2_SheetNamesUnique ==
    \A i, j \in DOMAIN workbook.sheets :
        i # j => workbook.sheets[i].title # workbook.sheets[j].title

\* C3: once create_filtered_sheets has run, each of the first 5 text columns
\* has an analysis sheet if and only if it has between 2 and 20 distinct
\* values, whether or not it also has empty cells.
C3_SheetIffTwoToTwentyDistinct ==
    Completed("create_filtered_sheets") =>
        \A i \in DOMAIN CategoricalColumns(data) :
            LET c == CategoricalColumns(data)[i]
                n == Cardinality(DistinctValues(c.vals))
            IN AnalysisOf(workbook, c.name) # {} <=> (2 <= n /\ n <= MaxCategories)

Attempted(k) == \E i \in DOMAIN attempts : attempts[i] = ENCODINGS[k]

LoadReturned == attempts # <<>>

NoSurroundingSpace(name) ==
    name # <<>> => ~IsSpace(name[1]) /\ ~IsSpace(name[Len(name)])

\* C4 as claimed: once load_data has returned or raised, a later encoding was
\* attempted exactly when every earlier attempt failed, the load failed only
\* if no encoding parses, and the loaded column names carry no surrounding
\* whitespace.
C4_LaterEncodingIffEarlierFailed ==
    LoadReturned =>
        /\ \A k \in 2..3 : Attempted(k) <=> \A j \in 1..(k - 1) : file.enc[j] # "ok"
        /\ ~data.loaded => \A k \in 1..3 : file.enc[k] # "ok"
        /\ data.loaded => \A i \in DOMAIN data.cols : NoSurroundingSpace(data.cols[i].name)

\* C4 amended: the encodings are attempted in the order utf-8, utf-8-sig,
\* latin-1; a later one is attempted exactly when every earlier attempt raised
\* UnicodeDecodeError; the load succeeds exactly when the last attempt parses,
\* and fails as soon as an attempt raises any other error; the loaded column
\* names are the file's, stripped of surrounding whitespace.
C4_LaterEncodingIffEarlierDecodeError ==
    LoadReturned =>
        /\ \E n \in 1..3 : attempts = SubSeq(ENCODINGS, 1, n)
        /\ \A k \in 2..3 :
              Attempted(k) <=> \A j \in 1..(k - 1) : file.enc[j] = "UnicodeDecodeError"
        /\ data.loaded <=> file.enc[Len(attempts)] = "ok"
        /\ ~data.loaded => result = "False" /\ trace = <<>>
        /\ data.loaded =>
              /\ Len(data.cols) = Len(file.cols)
              /\ \A i \in DOMAIN data.cols :
                    /\ NoSurroundingSpace(data.cols[i].name)
                    /\ \E l, r \in 0..Len(file.cols[i].name) :
                          /\ l + r <= Len(file.cols[i].name)
                          /\ data.cols[i].name =
                                SubSeq(file.cols[i].name, l + 1, Len(file.cols[i].name) - r)
                          /\ \A k \in (1..l) \cup ((Len(file.cols[i].name) - r + 1)..Len(file.cols[i].name)) :
                                IsSpace(file.cols[i].name[k])

\* C4 witness: utf-8 and utf-8-sig raised UnicodeDecodeError, latin-1 parsed,
\* and a header that had whitespace on both sides was loaded.
C4_Witness ==
    /\ attempts = ENCODINGS
    /\ data.loaded
    /\ \E i \in DOMAIN file.cols :
          /\ IsSpace(file.cols[i].name[1])
          /\ IsSpace(file.cols[i].name[Len(file.cols[i].name)])

\* the position in the table of the column an analysis sheet is about
ColumnOf(ws) ==
    CHOOSE i \in DOMAIN data.cols : ws.a1 = ANALYSIS_HEADING \o data.cols[i].name

\* C5: when convert() has returned True the stages ran once each in the order
\* load, create workbook, main data, summary, charts, analysis, finalize,
\* save; the saved workbook's sheets are "Complete Data", "Data Summary",
\* "Data Visualizations" and then at most 5 analysis sheets in table column
\* order (3 to 8 sheets, no default sheet), and its active sheet is the first,
\* "Complete Data".
C5_StagesInOrderSheetsInOrder ==
    result = "True" =>
        /\ trace = STAGES
        /\ Len(saved) = 1
        /\ LET wb == saved[1].workbook
               n == Len(wb.sheets)
           IN /\ 3 <= n /\ n <= 3 + CategoricalLimit
              /\ SubSeq(SheetTitles(wb), 1, 3) =
                    <<COMPLETE_DATA, DATA_SUMMARY, DATA_VISUALIZATIONS>>
              /\ \A i \in 1..n : wb.sheets[i].title # DEFAULT_SHEET
              /\ \A i \in 4..n :
                    /\ \E j \in DOMAIN data.cols :
                          /\ wb.sheets[i].a1 = ANALYSIS_HEADING \o data.cols[j].name
                          /\ wb.sheets[i].title =
                                Take(data.cols[j].name, NamePrefixLen) \o ANALYSIS_SUFFIX
                    /\ i < n => ColumnOf(wb.sheets[i]) < ColumnOf(wb.sheets[i + 1])
              /\ wb.active = 1
              /\ wb.sheets[wb.active].title = COMPLETE_DATA

\* C5 witness: a successful run over a table with more than 5 qualifying text
\* columns saved 8 sheets.
C5_Witness ==
    /\ result = "True"
    /\ Len(saved[1].workbook.sheets) = 3 + CategoricalLimit
    /\ Cardinality({i \in DOMAIN data.cols :
                       data.cols[i].dtype = "object"
                       /\ Cardinality(DistinctValues(data.cols[i].vals)) = 2})
          > CategoricalLimit

\* "p.ff%" for p.ff the quotient part * 100 / total (total > 0) to two
\* decimals: within half a hundredth of it
IsPctOf(text, part, total) ==
    \E h \in {(10000 * part) \div total, (10000 * part) \div total + 1} :
        /\ 2 * h * total - 20000 * part <= total
        /\ 20000 * part - 2 * h * total <= total
        /\ text = Fixed2(h) \o <<"%">>

\* a percentage of two decimals between "0.00%" and "100.00%"
IsPct(text) == \E h \in 0..10000 : text = Fixed2(h) \o <<"%">>

PCT_60 == <<"6", "0", ".", "0", "0", "%">>
PCT_40 == <<"4", "0", ".", "0", "0", "%">>
PCT_0 == <<"0", ".", "0", "0", "%">>
PCT_100 == <<"1", "0", "0", ".", "0", "0", "%">>

\* C6: every analysis sheet has one row per distinct value of its column, with
\* that value's count and its percentage of the total row count to two
\* decimals, rows by descending count; [x,x,y,y,y] gives (y,3,60.00%) then
\* (x,2,40.00%); the pie chart, over rows 4..3+n, is there if and only if the
\* n distinct values are at most 10.
C6_FrequencyTable ==
    Completed("create_filtered_sheets") =>
        \A s \in 4..Len(workbook.sheets) :
            LET ws == workbook.sheets[s]
                vals == data.cols[ColumnOf(ws)].vals
                n == Cardinality(DistinctValues(vals))
            IN /\ Len(ws.rows) = n
               /\ {ws.rows[i][1] : i \in DOMAIN ws.rows} = DistinctValues(vals)
               /\ \A i \in DOMAIN ws.rows :
                     /\ ws.rows[i][2] = Cardinality({k \in DOMAIN vals : vals[k] = ws.rows[i][1]})
                     /\ IsPctOf(ws.rows[i][3], ws.rows[i][2], data.nrows)
               /\ \A i, j \in DOMAIN ws.rows : i < j => ws.rows[i][2] >= ws.rows[j][2]
               /\ vals = <<1, 1, 2, 2, 2>> => ws.rows = <<<<2, 3, PCT_60>>, <<1, 2, PCT_40>>>>
               /\ ws.chart.kind = "pie" <=> n <= PieLimit
               /\ ws.chart.kind # "pie" => ws.chart = NoChart
               /\ ws.chart.kind = "pie" =>
                     /\ ws.chart.cats = <<[min_col |-> 1, min_row |-> 4, max_row |-> 3 + n]>>
                     /\ ws.chart.data = <<[min_col |-> 2, min_row |-> 3, max_row |-> 3 + n]>>

\* C6 witness: the analysis sheet of a column holding [x,x,y,y,y] was created.
C6_Witness ==
    /\ Completed("create_filtered_sheets")
    /\ Len(workbook.sheets) = 4
    /\ data.cols[ColumnOf(workbook.sheets[4])].vals = <<1, 1, 2, 2, 2>>

\* C7: in the summary sheet every column's non-null count plus null count is
\* the total row count and its null percentage is null count * 100 / total to
\* two decimals with a percent sign, between "0.00%" and "100.00%": "100.00%"
\* for a column with nothing populated, "0.00%" for a fully populated one; also
\* for a table with a header and no data rows.
C7_SummaryNullPercentage ==
    Completed("create_summary_sheet") =>
        \A i \in DOMAIN data.cols :
            LET row == workbook.sheets[2].rows[i]
            IN /\ row[1] = data.cols[i].name
               /\ row[3] + row[4] = data.nrows
               /\ row[4] = Cardinality({k \in DOMAIN data.cols[i].vals : data.cols[i].vals[k] = 0})
               /\ IsPct(row[5])
               /\ data.nrows > 0 => IsPctOf(row[5], row[4], data.nrows)
               /\ row[3] = 0 /\ data.nrows > 0 => row[5] = PCT_100
               /\ row[4] = 0 /\ data.nrows > 0 => row[5] = PCT_0

\* the k-th smallest member of a set of naturals
RECURSIVE Nth(_, _)
Nth(S, k) ==
    LET m == CHOOSE x \in S : \A y \in S : x <= y
    IN IF k = 1 THEN m ELSE Nth(S \ {m}, k - 1)

IsNumeric(c) == c.dtype \in {"int64", "float64"}

\* the columns create_charts_sheet is to write: among the first 10 numeric
\* columns, those with a populated cell
Charted(d) ==
    {i \in DOMAIN d.cols :
        /\ IsNumeric(d.cols[i])
        /\ Cardinality({j \in 1..i : IsNumeric(d.cols[j])}) <= NumericLimit
        /\ \E k \in DOMAIN d.cols[i].vals : d.cols[i].vals[k] # 0}

\* C8: the charts sheet has one (name, mean) row for each of the first 10
\* numeric columns that has a defined mean, in table column order, no 11th or
\* later column standing in for a skipped one, at most 10 rows; with k >= 1
\* rows the bar chart's series is rows 3..3+k of column B and its categories
\* rows 4..3+k of column A; with no row there is only the title.
C8_ChartOfFirstTenNumeric ==
    Completed("create_charts_sheet") =>
        LET ws == workbook.sheets[3]
            k == Len(ws.rows)
        IN /\ ws.title = DATA_VISUALIZATIONS /\ ws.a1 = DATA_VISUALIZATIONS
           /\ k = Cardinality(Charted(data))
           /\ k <= NumericLimit
           /\ \A r \in 1..k :
                 LET c == data.cols[Nth(Charted(data), r)]
                 IN /\ ws.rows[r][1] = c.name
                    /\ ws.rows[r][2][2] = Cardinality({i \in DOMAIN c.vals : c.vals[i] # 0})
                    /\ ws.rows[r][2][1] = SumSeq(c.vals)
           /\ k >= 1 =>
                 /\ ws.chart.kind = "bar"
                 /\ ws.chart.data = <<[min_col |-> 2, min_row |-> 3, max_row |-> 3 + k]>>
                 /\ ws.chart.cats = <<[min_col |-> 1, min_row |-> 4, max_row |-> 3 + k]>>
           /\ k = 0 => ws.chart = NoChart /\ ws.rows = <<>>

\* C8 witness: more than 10 numeric columns, an empty one among the first 10
\* and a populated one after them; fewer than 10 rows were written.
C8_Witness ==
    /\ Completed("create_charts_sheet")
    /\ Len(workbook.sheets[3].rows) < NumericLimit
    /\ \E i, j \in DOMAIN data.cols :
          /\ i <= NumericLimit /\ j > NumericLimit
          /\ \A m \in 1..j : IsNumeric(data.cols[m])
          /\ data.cols[i].vals = <<0>>
          /\ data.cols[j].vals # <<0>>

\* C9: when no output path is given, the output path ends in ".xlsx" and is
\* not the input path, so a save never overwrites the input CSV.
C9_DefaultOutputNeverInput ==
    output_file_arg = <<>> =>
        /\ EndsWith(output_file_path, XLSX_EXT)
        /\ output_file_path # csv_file_path
        /\ \A i \in DOMAIN saved : saved[i].path # csv_file_path
====
